---- MODULE Spec2Model ----
(***************************************************************************)
(* NIQE (Natural Image Quality Evaluator) of Evaluate/niqe.py:             *)
(*   estimate_aggd_param, compute_feature, niqe, img_scissors and the      *)
(*   video driver NIQE.                                                    *)
(*                                                                         *)
(* Floating point numbers are fixed-point integers with denominator Q      *)
(* (1.0 is Q), carried in a record together with a NaN flag, so that NaN   *)
(* poisons arithmetic as it does in numpy.                                 *)
(***************************************************************************)
EXTENDS Integers, Sequences, FiniteSets, TLC

VARIABLES
    \* ---- estimate_aggd_param / compute_feature called on their own
    block,          \* the 2D block passed in (sequence of rows)
    ret,            \* last return value of estimate_aggd_param
    feat,           \* feature rows: compute_feature result / niqe's feat list
    gam_builds,     \* how many times lines 19-21 built gam and r_gam
    calls,          \* calls made so far
    \* ---- niqe
    pc,             \* position in niqe
    ndim,           \* img.ndim of the argument
    img,            \* current image (cropped, later downsampled)
    img_cropped,    \* the image as cropped by line 91, kept for reference
    block_size_h, block_size_w,
    num_block_h, num_block_w,
    scale,
    img_nomalized,
    idx_w, idx_h,
    slices,         \* the slice bounds used for each block, per scale
    distparam,      \* list of per-scale matrices, then the concatenated one
    mu_distparam, distparam_no_nan, cov_distparam,
    outcome,        \* how the call ended
    log,            \* the library calls made, in order
    \* ---- driver NIQE
    dpc, opened, n_origin, n_result, pos_origin, pos_result,
    rval_origin, rval_result, frame_origin, frame_result,
    index, niqe_origin, niqe_result, scored, douts

aggdVars == <<block, ret, gam_builds, calls>>
niqeVars == <<pc, ndim, img, img_cropped, block_size_h, block_size_w, num_block_h, num_block_w,
              scale, img_nomalized, idx_w, idx_h, slices, distparam,
              mu_distparam, distparam_no_nan, cov_distparam, outcome, log>>
driverVars == <<dpc, opened, n_origin, n_result, pos_origin, pos_result, rval_origin,
                rval_result, frame_origin, frame_result, index, niqe_origin,
                niqe_result, scored, douts>>
vars == <<aggdVars, feat, niqeVars, driverVars>>

----------------------------------------------------------------------------
(* Fixed-point floats *)

\* two decimal digits
Q == 10 * 10

NaN == [nan |-> TRUE, v |-> 0]
Fin(x) == [nan |-> FALSE, v |-> x]
IsNaN(a) == a.nan

FAdd(a, b) == IF a.nan \/ b.nan THEN NaN ELSE Fin(a.v + b.v)
FSub(a, b) == IF a.nan \/ b.nan THEN NaN ELSE Fin(a.v - b.v)
FMul(a, b) == IF a.nan \/ b.nan THEN NaN ELSE Fin((a.v * b.v) \div Q)
\* 0/0 is NaN; x/0 with x # 0 never occurs for the operands below
FDiv(a, b) == IF a.nan \/ b.nan \/ b.v = 0 THEN NaN ELSE Fin((a.v * Q) \div b.v)

Min(a, b) == IF a < b THEN a ELSE b
Max(a, b) == IF a > b THEN a ELSE b
Abs(x) == IF x < 0 THEN -x ELSE x

RECURSIVE SqrtSearch(_, _, _)
SqrtSearch(n, lo, hi) ==
    IF lo >= hi THEN lo
    ELSE LET mid == (lo + hi + 1) \div 2
         IN  IF mid * mid <= n THEN SqrtSearch(n, mid, hi)
                               ELSE SqrtSearch(n, lo, mid - 1)
\* floor of the square root of a natural number
ISqrt(n) == SqrtSearch(n, 0, Min(n, 46340))

RECURSIVE SumSeq(_)
SumSeq(s) == IF s = <<>> THEN 0 ELSE Head(s) + SumSeq(Tail(s))

RECURSIVE Flat(_)
Flat(rows) == IF rows = <<>> THEN <<>> ELSE Head(rows) \o Flat(Tail(rows))

----------------------------------------------------------------------------
(* estimate_aggd_param *)

\* block.flatten(): row-major
flatten(b) == Flat(b)

\* gam = np.arange(0.2, 10.001, step): the candidate grid from 0.2 to 10.0,
\* here with the coarser step 0.7 (15 candidates instead of 9801)
gam == <<20, 90, 160, 230, 300, 370, 440, 510, 580, 650, 720, 790, 860, 930, 1000>>
\* r_gam = gamma(2/a)^2 / (gamma(1/a) * gamma(3/a)) for each candidate a
r_gam == <<6, 47, 60, 66, 68, 70, 71, 72, 73, 73, 73, 74, 74, 74, 74>>
\* np.sqrt(gamma(1 / alpha) / gamma(3 / alpha)) for each candidate
beta_factor == <<0, 58, 123, 151, 164, 170, 174, 176, 177, 178, 178, 178, 178, 178, 178>>
\* gamma(2 / alpha) / gamma(1 / alpha) for each candidate
mean_factor == <<1512000, 118, 63, 54, 51, 49, 49, 48, 48, 48, 48, 48, 48, 48, 48>>

\* the root mean square with an empty selection counted as 0
RootMeanSquareZeroEmpty(x) ==
    IF Len(x) = 0 THEN Fin(0)
    ELSE Fin(ISqrt(SumSeq([i \in 1..Len(x) |-> x[i] * x[i]]) \div Len(x)))

\* np.sqrt(np.mean(x**2)); the mean of an empty selection is NaN
RootMeanSquare(x) ==
    IF Len(x) = 0 THEN NaN
    ELSE Fin(ISqrt(SumSeq([i \in 1..Len(x) |-> x[i] * x[i]]) \div Len(x)))

\* (np.mean(np.abs(block)))**2 / np.mean(block**2)
Rhat(x) ==
    IF Len(x) = 0 THEN NaN
    ELSE LET mabs == SumSeq([i \in 1..Len(x) |-> Abs(x[i])]) \div Len(x)
             msq  == SumSeq([i \in 1..Len(x) |-> x[i] * x[i]]) \div Len(x)
         IN  IF msq = 0 THEN NaN ELSE Fin((mabs * mabs * Q) \div msq)

\* (rhat * (gammahat**3 + 1) * (gammahat + 1)) / ((gammahat**2 + 1)**2).
\* The factor of rhat has the same value at gammahat and at 1 / gammahat; it
\* is evaluated at the one that is at most 1, which keeps every intermediate
\* result inside 32-bit integers.
Rhatnorm(rhat, gammahat) ==
    IF IsNaN(rhat) \/ IsNaN(gammahat) THEN NaN
    ELSE LET one == Fin(Q)
             g   == IF gammahat.v > Q THEN FDiv(one, gammahat) ELSE gammahat
             g2  == FMul(g, g)
             g3  == FMul(g2, g)
             den == FAdd(g2, one)
         IN  FDiv(FMul(FMul(rhat, FAdd(g3, one)), FAdd(g, one)), FMul(den, den))

\* np.argmin((r_gam - rhatnorm)**2): the first index of the smallest entry;
\* a NaN entry counts as the smallest, so with rhatnorm NaN the result is the
\* first index
argmin(rn) ==
    IF IsNaN(rn) THEN 1
    ELSE LET d(i) == (r_gam[i] - rn.v) * (r_gam[i] - rn.v)
         IN  CHOOSE i \in 1..Len(r_gam) :
                /\ \A j \in 1..Len(r_gam) : d(i) <= d(j)
                /\ \A j \in 1..(i - 1) : d(j) > d(i)

estimate_aggd_param(b) ==
    LET x          == flatten(b)
        left_std   == RootMeanSquare(SelectSeq(x, LAMBDA e : e < 0))
        right_std  == RootMeanSquare(SelectSeq(x, LAMBDA e : e > 0))
        gammahat   == FDiv(left_std, right_std)
        rhat       == Rhat(x)
        rhatnorm   == Rhatnorm(rhat, gammahat)
        array_position == argmin(rhatnorm)
        alpha      == Fin(gam[array_position])
        beta_l     == FMul(left_std, Fin(beta_factor[array_position]))
        beta_r     == FMul(right_std, Fin(beta_factor[array_position]))
    IN  [alpha |-> alpha, beta_l |-> beta_l, beta_r |-> beta_r,
         pos |-> array_position]

----------------------------------------------------------------------------
(* compute_feature *)

Height(b) == Len(b)
Width(b) == IF Len(b) = 0 THEN 0 ELSE Len(b[1])

\* the shifts with the first two exchanged
shifts_vertical_first == << <<1, 0>>, <<0, 1>>, <<1, 1>>, <<1, -1>> >>

shifts == << <<0, 1>>, <<1, 0>>, <<1, 1>>, <<1, -1>> >>

\* np.roll(block, sh, axis=(0, 1)): the element at (r, c) moves to
\* (r + sh[1], c + sh[2]), wrapping around on both axes
roll(b, sh) ==
    [r \in 1..Height(b) |->
        [c \in 1..Width(b) |->
            b[((r - 1 - sh[1]) % Height(b)) + 1][((c - 1 - sh[2]) % Width(b)) + 1]]]

\* block * shifted_block, element by element
times(a, b) ==
    [r \in 1..Height(a) |-> [c \in 1..Width(a) |-> (a[r][c] * b[r][c]) \div Q]]

\* the four values one shift contributes, in the order of line 57
shift_feature(b, sh) ==
    LET p    == estimate_aggd_param(times(b, roll(b, sh)))
        mean == FMul(FSub(p.beta_r, p.beta_l), Fin(mean_factor[p.pos]))
    IN  <<p.alpha, mean, p.beta_l, p.beta_r>>

compute_feature(b) ==
    LET p == estimate_aggd_param(b)
    IN  <<p.alpha, FDiv(FAdd(p.beta_l, p.beta_r), Fin(2 * Q))>>
        \o shift_feature(b, shifts[1]) \o shift_feature(b, shifts[2])
        \o shift_feature(b, shifts[3]) \o shift_feature(b, shifts[4])

----------------------------------------------------------------------------
(* niqe: array helpers *)

\* A[r0:r1, c0:c1] with numpy's clipping of the bounds (0-based, half-open)
Slice(A, r0, r1, c0, c1) ==
    LET rs == Max(0, Min(r0, Height(A)))
        re == Max(rs, Min(r1, Height(A)))
        cs == Max(0, Min(c0, Width(A)))
        ce == Max(cs, Min(c1, Width(A)))
    IN  [r \in 1..(re - rs) |-> [c \in 1..(ce - cs) |-> A[rs + r][cs + c]]]

Clamp(i, n) == Max(1, Min(i, n))

\* the smoothing window handed to niqe (the pristine model holds a 7x7 one);
\* the weights sum to 1.0
gaussian_window == << <<6, 12, 6>>, <<12, 28, 12>>, <<6, 12, 6>> >>

\* scipy.ndimage.convolve(A, W, mode='nearest'): same-size output, the input
\* extended by replicating its edge; an empty input gives an empty output
convolve(A, W) ==
    LET kh == Len(W)
        kw == Len(W[1])
        tap(r, c, i, j) ==
            W[i][j] * A[Clamp(r + (kh \div 2) - (i - 1), Height(A))]
                       [Clamp(c + (kw \div 2) - (j - 1), Width(A))]
    IN  [r \in 1..Height(A) |-> [c \in 1..Width(A) |->
            SumSeq([k \in 1..(kh * kw) |->
                tap(r, c, ((k - 1) \div kw) + 1, ((k - 1) % kw) + 1)]) \div Q]]

\* np.square(img)
square(A) == [r \in 1..Height(A) |-> [c \in 1..Width(A) |-> (A[r][c] * A[r][c]) \div Q]]

\* lines 95-98: mu, sigma and the normalised image (img - mu) / (sigma + 1)
normalize(A) ==
    LET mu    == convolve(A, gaussian_window)
        m2    == convolve(square(A), gaussian_window)
        sigma == [r \in 1..Height(A) |-> [c \in 1..Width(A) |->
                    ISqrt(Abs(m2[r][c] - (mu[r][c] * mu[r][c]) \div Q) * Q)]]
    IN  [r \in 1..Height(A) |-> [c \in 1..Width(A) |->
            ((A[r][c] - mu[r][c]) * Q) \div (sigma[r][c] + Q)]]

\* utils.imresize(img / 255., scale=0.5, antialiasing=True) * 255.: half the
\* size in each dimension (rounded up), each output pixel a mean of the input
\* pixels it covers
imresize(A) ==
    LET oh == (Height(A) + 1) \div 2
        ow == (Width(A) + 1) \div 2
        px(r, c) == A[Clamp(r, Height(A))][Clamp(c, Width(A))]
    IN  [r \in 1..oh |-> [c \in 1..ow |->
            (px(2 * r - 1, 2 * c - 1) + px(2 * r - 1, 2 * c)
             + px(2 * r, 2 * c - 1) + px(2 * r, 2 * c)) \div 4]]

\* the resampling done after every scale
should_resample_always(s) == TRUE

\* line 110: the image is resampled after scale 1 only
should_resample(s) == s = 1

\* the bounds as multiples of the scaled block size block_size // scale
block_bounds_scaled_size(idx, size, s) == <<idx * (size \div s), (idx + 1) * (size \div s)>>

\* lines 104-105: idx * block_size // scale : (idx + 1) * block_size // scale
block_bounds(idx, size, s) == <<(idx * size) \div s, ((idx + 1) * size) \div s>>

\* the two matrices joined along the rows (axis=0)
concatenate_rows(ms) == ms[1] \o ms[2]

\* np.concatenate(distparam, axis=1) of the two per-scale matrices
concatenate(ms) == [i \in 1..Len(ms[1]) |-> ms[1][i] \o ms[2][i]]

----------------------------------------------------------------------------
(* niqe: aggregation *)

NumCols(M) == IF Len(M) = 0 THEN 0 ELSE Len(M[1])

\* the column means over the rows that hold no NaN at all
nanmean_full_rows(M) ==
    LET X == SelectSeq(M, LAMBDA row : \A j \in 1..Len(row) : ~IsNaN(row[j]))
    IN  [j \in 1..NumCols(M) |->
            IF Len(X) = 0 THEN NaN
            ELSE Fin(SumSeq([i \in 1..Len(X) |-> X[i][j].v]) \div Len(X))]

\* np.nanmean(M, axis=0): per column, the mean of the entries that are not
\* NaN; NaN for a column without any
nanmean(M) ==
    [j \in 1..NumCols(M) |->
        LET good == SelectSeq([i \in 1..Len(M) |-> M[i][j]], LAMBDA e : ~IsNaN(e))
        IN  IF Len(good) = 0 THEN NaN
            ELSE Fin(SumSeq([i \in 1..Len(good) |-> good[i].v]) \div Len(good))]

\* M[~np.isnan(M).any(axis=1)]
drop_nan_rows(M) == SelectSeq(M, LAMBDA row : \A j \in 1..Len(row) : ~IsNaN(row[j]))

\* np.cov(X, rowvar=False) for X with ncols columns: with fewer than two rows
\* the normalisation N - 1 is not positive and every entry is NaN
cov(X, ncols) ==
    LET N == Len(X)
        avg(j) == SumSeq([i \in 1..N |-> X[i][j].v]) \div N
    IN  [a \in 1..ncols |-> [b \in 1..ncols |->
            IF N - 1 <= 0 THEN NaN
            ELSE Fin(SumSeq([i \in 1..N |->
                        ((X[i][a].v - avg(a)) * (X[i][b].v - avg(b))) \div Q])
                     \div (N - 1))]]

IsNaNMatrix(C) == ~(\A a \in 1..Len(C) : \A b \in 1..Len(C[a]) : ~IsNaN(C[a][b]))

----------------------------------------------------------------------------
(* Values of the variables a specification does not use *)

NoRet == [alpha |-> NaN, beta_l |-> NaN, beta_r |-> NaN, pos |-> 0]

AggdIdle ==
    /\ block = <<>>
    /\ ret = NoRet
    /\ calls = 0

NiqeIdle ==
    /\ pc = "idle"
    /\ ndim = 2
    /\ img = <<>>
    /\ img_cropped = <<>>
    /\ block_size_h = 1
    /\ block_size_w = 1
    /\ num_block_h = 0
    /\ num_block_w = 0
    /\ scale = 1
    /\ img_nomalized = <<>>
    /\ idx_w = 0
    /\ idx_h = 0
    /\ slices = <<>>
    /\ distparam = <<>>
    /\ mu_distparam = <<>>
    /\ distparam_no_nan = <<>>
    /\ cov_distparam = <<>>
    /\ outcome = "none"
    /\ log = <<>>

DriverIdle ==
    /\ dpc = "idle"
    /\ opened = <<FALSE, FALSE>>
    /\ n_origin = 0
    /\ n_result = 0
    /\ pos_origin = 0
    /\ pos_result = 0
    /\ rval_origin = FALSE
    /\ rval_result = FALSE
    /\ frame_origin = 0
    /\ frame_result = 0
    /\ index = 0
    /\ niqe_origin = 0
    /\ niqe_result = 0
    /\ scored = <<>>
    /\ douts = "none"

----------------------------------------------------------------------------
(* estimate_aggd_param and compute_feature called on blocks *)

MaxCells == 6
MaxCalls == 2

\* block entries: -1.0, 0.0 and 2.0
EntryVals == {-Q, 0, 2 * Q}

\* every block of at most MaxCells cells
SmallBlocks ==
    UNION { [1..h -> [1..w -> EntryVals]] :
                <<h, w>> \in { s \in (0..MaxCells) \X (0..MaxCells) : s[1] * s[2] <= MaxCells } }

\* the 3x3 blocks without zeros
SignBlocks == [1..3 -> [1..3 -> {-Q, 2 * Q}]]

Blocks == SmallBlocks \cup SignBlocks

InitAggd ==
    /\ block \in Blocks
    /\ ret = NoRet
    /\ feat = <<>>
    /\ gam_builds = 0
    /\ calls = 0
    /\ NiqeIdle
    /\ DriverIdle

\* one call estimate_aggd_param(block); lines 19-21 build gam and r_gam
CallEstimate ==
    /\ calls < MaxCalls
    /\ ret' = estimate_aggd_param(block)
    /\ gam_builds' = gam_builds + 1
    /\ calls' = calls + 1
    /\ UNCHANGED <<block, feat, niqeVars, driverVars>>

\* one call compute_feature(block): five calls of estimate_aggd_param
CallCompute ==
    /\ calls < MaxCalls
    /\ feat' = compute_feature(block)
    /\ gam_builds' = gam_builds + 1 + Len(shifts)
    /\ calls' = calls + 1
    /\ UNCHANGED <<block, ret, niqeVars, driverVars>>

NextAggd == CallEstimate \/ CallCompute

SpecAggd == InitAggd /\ [][NextAggd]_vars

HasNegative(b) == \E i \in 1..Len(flatten(b)) : flatten(b)[i] < 0
HasPositive(b) == \E i \in 1..Len(flatten(b)) : flatten(b)[i] > 0
InGrid(a) == ~IsNaN(a) /\ \E i \in 1..Len(gam) : a.v = gam[i]
Returned == ret.pos > 0

\* C5 as stated: estimate_aggd_param returns either an in-grid alpha with both
\* betas >= 0, or alpha, beta_left and beta_right all NaN, and nothing else.
C5_GridAlphaOrAllNaN ==
    (Returned /\ Len(flatten(block)) > 0) =>
        \/ /\ InGrid(ret.alpha)
           /\ ~IsNaN(ret.beta_l) /\ ret.beta_l.v >= 0
           /\ ~IsNaN(ret.beta_r) /\ ret.beta_r.v >= 0
        \/ IsNaN(ret.alpha) /\ IsNaN(ret.beta_l) /\ IsNaN(ret.beta_r)

\* C5 amended: alpha is always a grid candidate and never NaN; beta_left is NaN
\* exactly when the block has no strictly negative element and is >= 0
\* otherwise; beta_right is NaN exactly when the block has no strictly positive
\* element and is >= 0 otherwise; with a NaN beta, alpha is the first candidate.
C5_AlphaInGridBetaNaNBySign ==
    Returned =>
        /\ InGrid(ret.alpha)
        /\ IsNaN(ret.beta_l) <=> ~HasNegative(block)
        /\ IsNaN(ret.beta_r) <=> ~HasPositive(block)
        /\ ~IsNaN(ret.beta_l) => ret.beta_l.v >= 0
        /\ ~IsNaN(ret.beta_r) => ret.beta_r.v >= 0
        /\ (IsNaN(ret.beta_l) \/ IsNaN(ret.beta_r)) => ret.alpha.v = gam[1]

\* a block of only positive elements came back with an in-grid alpha, a NaN
\* beta_left and a number as beta_right
C5_Witness ==
    /\ Returned
    /\ HasPositive(block) /\ ~HasNegative(block)
    /\ InGrid(ret.alpha) /\ IsNaN(ret.beta_l) /\ ~IsNaN(ret.beta_r)

\* block[r][c] * block rolled by (dr, dc), written out index by index
ShiftedProduct(b, dr, dc) ==
    [r \in 1..Height(b) |-> [c \in 1..Width(b) |->
        (b[r][c] * b[((r - 1 - dr) % Height(b)) + 1][((c - 1 - dc) % Width(b)) + 1]) \div Q]]

FitOfShift(b, dr, dc) ==
    LET p == estimate_aggd_param(ShiftedProduct(b, dr, dc))
    IN  <<p.alpha, FMul(FSub(p.beta_r, p.beta_l), Fin(mean_factor[p.pos])),
          p.beta_l, p.beta_r>>

Computed == pc = "idle" /\ Len(feat) > 0

\* C6: for a block of shape at least 2x2, compute_feature returns 18 values:
\* the block's alpha, the mean of its two betas, then alpha, mean, beta_left,
\* beta_right of block * rolled block for the offsets (0,+1), (+1,0), (+1,+1),
\* (+1,-1), in that order.
C6_FeatureOrder ==
    (Computed /\ Height(block) >= 2 /\ Width(block) >= 2) =>
        LET own == estimate_aggd_param(block)
        IN  /\ Len(feat) = 18
            /\ feat[1] = own.alpha
            /\ feat[2] = FDiv(FAdd(own.beta_l, own.beta_r), Fin(2 * Q))
            /\ SubSeq(feat, 3, 6) = FitOfShift(block, 0, 1)
            /\ SubSeq(feat, 7, 10) = FitOfShift(block, 1, 0)
            /\ SubSeq(feat, 11, 14) = FitOfShift(block, 1, 1)
            /\ SubSeq(feat, 15, 18) = FitOfShift(block, 1, -1)

\* the features of a 3x3 block on which the horizontal and the vertical shift
\* differ, the two diagonal shifts differ, and the four values of one shift
\* are four different numbers
C6_Witness ==
    /\ Computed /\ Height(block) >= 3 /\ Width(block) >= 3
    /\ Len(feat) = 18
    /\ SubSeq(feat, 3, 6) # SubSeq(feat, 7, 10)
    /\ SubSeq(feat, 11, 14) # SubSeq(feat, 15, 18)
    /\ \E k \in 0..3 :
          /\ \A i \in 0..3 : ~IsNaN(feat[3 + 4 * k + i])
          /\ \A i \in 0..3 : \A j \in 0..3 :
                i < j => feat[3 + 4 * k + i] # feat[3 + 4 * k + j]

\* C9: over any sequence of calls the lookup table (gam, r_gam) is built at
\* most once.
C9_TableBuiltAtMostOnce == gam_builds <= 1

----------------------------------------------------------------------------
(* niqe *)

MaxH == 4
MaxW == 8
MaxBlock == 4

\* pixel (r, c) of the test images, in 0..255: a black image and two textures
Pixel(k, r, c) ==
    CASE k = 0 -> 0
      [] k = 1 -> ((r + 2 * c + r * c) % 4) * 85
      [] OTHER -> ((r * 7 + c * 13 + r * c) % 5) * 60

Image(k, h, w) == [r \in 1..h |-> [c \in 1..w |-> Pixel(k, r, c) * Q]]

InitNiqe ==
    /\ pc = "entry"
    /\ ndim \in {1, 2, 3}
    /\ \E k \in 0..2 : \E h \in 0..MaxH : \E w \in 0..MaxW :
          img = IF ndim = 2 THEN Image(k, h, w) ELSE <<>>
    /\ img_cropped = <<>>
    /\ block_size_h \in 1..MaxBlock
    /\ block_size_w \in 1..MaxBlock
    /\ num_block_h = 0
    /\ num_block_w = 0
    /\ scale = 1
    /\ img_nomalized = <<>>
    /\ idx_w = 0
    /\ idx_h = 0
    /\ slices = <<>>
    /\ distparam = <<>>
    /\ mu_distparam = <<>>
    /\ distparam_no_nan = <<>>
    /\ cov_distparam = <<>>
    /\ outcome = "none"
    /\ log = <<>>
    /\ feat = <<>>
    /\ gam_builds = 0
    /\ AggdIdle
    /\ DriverIdle

\* line 86: the assertion on img.ndim fails
EnterInvalid ==
    /\ pc = "entry"
    /\ ndim # 2
    /\ outcome' = "AssertionError"
    /\ pc' = "done"
    /\ UNCHANGED <<aggdVars, feat, ndim, img_cropped, img, block_size_h, block_size_w,
                   num_block_h, num_block_w, scale, img_nomalized, idx_w, idx_h,
                   slices, distparam, mu_distparam, distparam_no_nan,
                   cov_distparam, log, driverVars>>

\* lines 88-93: block counts from the shape, crop, empty distparam
EnterCrop ==
    /\ pc = "entry"
    /\ ndim = 2
    /\ num_block_h' = Height(img) \div block_size_h
    /\ num_block_w' = Width(img) \div block_size_w
    /\ img' = Slice(img, 0, num_block_h' * block_size_h, 0, num_block_w' * block_size_w)
    /\ img_cropped' = img'
    /\ distparam' = <<>>
    /\ scale' = 1
    /\ pc' = "convolve"
    /\ UNCHANGED <<aggdVars, feat, ndim, block_size_h, block_size_w, img_nomalized,
                   idx_w, idx_h, slices, mu_distparam, distparam_no_nan,
                   cov_distparam, outcome, log, driverVars>>

\* lines 95-100: the two convolutions and the normalised image of this scale
Normalize ==
    /\ pc = "convolve"
    /\ img_nomalized' = normalize(img)
    /\ log' = log \o <<"convolve", "convolve">>
    /\ feat' = <<>>
    /\ idx_w' = 0
    /\ idx_h' = 0
    /\ pc' = "blocks"
    /\ UNCHANGED <<aggdVars, ndim, img_cropped, img, block_size_h, block_size_w, num_block_h,
                   num_block_w, scale, slices, distparam, mu_distparam,
                   distparam_no_nan, cov_distparam, outcome, driverVars>>

\* lines 101-106: one pass of the inner loop body, idx_w outer and idx_h inner
ProcessBlock ==
    /\ pc = "blocks"
    /\ idx_w < num_block_w
    /\ idx_h < num_block_h
    /\ LET rb  == block_bounds(idx_h, block_size_h, scale)
           cb  == block_bounds(idx_w, block_size_w, scale)
           blk == Slice(img_nomalized, rb[1], rb[2], cb[1], cb[2])
       IN  /\ feat' = Append(feat, compute_feature(blk))
           /\ slices' = Append(slices, [scale |-> scale, idx_h |-> idx_h, idx_w |-> idx_w,
                                        rows |-> rb, cols |-> cb,
                                        shape |-> <<Height(blk), Width(blk)>>])
    /\ gam_builds' = gam_builds + 1 + Len(shifts)
    /\ log' = Append(log, "compute_feature")
    /\ IF idx_h + 1 < num_block_h
          THEN idx_h' = idx_h + 1 /\ idx_w' = idx_w
          ELSE idx_h' = 0 /\ idx_w' = idx_w + 1
    /\ UNCHANGED <<block, ret, calls, pc, ndim, img_cropped, img, block_size_h, block_size_w,
                   num_block_h, num_block_w, scale, img_nomalized, distparam,
                   mu_distparam, distparam_no_nan, cov_distparam, outcome,
                   driverVars>>

\* lines 108-110: the loops are over; np.array(feat) joins distparam
EndScale ==
    /\ pc = "blocks"
    /\ idx_w >= num_block_w \/ num_block_h = 0
    /\ distparam' = Append(distparam, feat)
    /\ pc' = IF should_resample(scale) THEN "resample"
             ELSE IF scale = 1 THEN "convolve" ELSE "concat"
    /\ scale' = IF ~should_resample(scale) /\ scale = 1 THEN 2 ELSE scale
    /\ UNCHANGED <<aggdVars, feat, ndim, img_cropped, img, block_size_h, block_size_w,
                   num_block_h, num_block_w, img_nomalized, idx_w, idx_h, slices,
                   mu_distparam, distparam_no_nan, cov_distparam, outcome, log,
                   driverVars>>

\* lines 111-112: img becomes the resampled img; then the next scale, if any
Downsample ==
    /\ pc = "resample"
    /\ img' = imresize(img)
    /\ log' = Append(log, "imresize")
    /\ pc' = IF scale = 1 THEN "convolve" ELSE "concat"
    /\ scale' = IF scale = 1 THEN 2 ELSE scale
    /\ UNCHANGED <<aggdVars, feat, ndim, img_cropped, block_size_h, block_size_w, num_block_h,
                   num_block_w, img_nomalized, idx_w, idx_h, slices, distparam,
                   mu_distparam, distparam_no_nan, cov_distparam, outcome,
                   driverVars>>

\* line 114 with two empty feature lists: the arrays are 1-dimensional and
\* np.concatenate(axis=1) raises
ConcatenateFail ==
    /\ pc = "concat"
    /\ Len(distparam[1]) = 0
    /\ outcome' = "AxisError"
    /\ log' = Append(log, "concatenate")
    /\ pc' = "done"
    /\ UNCHANGED <<aggdVars, feat, ndim, img_cropped, img, block_size_h, block_size_w,
                   num_block_h, num_block_w, scale, img_nomalized, idx_w, idx_h,
                   slices, distparam, mu_distparam, distparam_no_nan,
                   cov_distparam, driverVars>>

\* line 114
Concatenate ==
    /\ pc = "concat"
    /\ Len(distparam[1]) > 0
    /\ distparam' = concatenate(distparam)
    /\ log' = Append(log, "concatenate")
    /\ pc' = "aggregate"
    /\ UNCHANGED <<aggdVars, feat, ndim, img_cropped, img, block_size_h, block_size_w,
                   num_block_h, num_block_w, scale, img_nomalized, idx_w, idx_h,
                   slices, mu_distparam, distparam_no_nan, cov_distparam, outcome,
                   driverVars>>

\* lines 117-120: NaN-ignoring column means, rows without NaN, their covariance
Aggregate ==
    /\ pc = "aggregate"
    /\ mu_distparam' = nanmean(distparam)
    /\ distparam_no_nan' = drop_nan_rows(distparam)
    /\ cov_distparam' = cov(distparam_no_nan', NumCols(distparam))
    /\ log' = log \o <<"nanmean", "cov">>
    /\ pc' = "quality"
    /\ UNCHANGED <<aggdVars, feat, ndim, img_cropped, img, block_size_h, block_size_w,
                   num_block_h, num_block_w, scale, img_nomalized, idx_w, idx_h,
                   slices, distparam, outcome, driverVars>>

QualityFrame ==
    UNCHANGED <<aggdVars, feat, ndim, img_cropped, img, block_size_h, block_size_w,
                num_block_h, num_block_w, scale, img_nomalized, idx_w, idx_h,
                slices, distparam, mu_distparam, distparam_no_nan, cov_distparam,
                driverVars>>

\* lines 123-129 with a covariance of numbers: the score is returned
QualityScore ==
    /\ pc = "quality"
    /\ ~IsNaNMatrix(cov_distparam)
    /\ log' = Append(log, "pinv")
    /\ outcome' = "score"
    /\ pc' = "done"
    /\ QualityFrame

\* line 123 with a NaN covariance: np.linalg.pinv is called on a NaN matrix;
\* depending on the LAPACK build the SVD fails to converge (LinAlgError) ...
QualityLinAlgError ==
    /\ pc = "quality"
    /\ IsNaNMatrix(cov_distparam)
    /\ log' = Append(log, "pinv")
    /\ outcome' = "LinAlgError"
    /\ pc' = "done"
    /\ QualityFrame

\* ... or yields NaN, and lines 124-129 return the score NaN
QualityNaNScore ==
    /\ pc = "quality"
    /\ IsNaNMatrix(cov_distparam)
    /\ log' = Append(log, "pinv")
    /\ outcome' = "nan_score"
    /\ pc' = "done"
    /\ QualityFrame

NextNiqe ==
    \/ EnterInvalid
    \/ EnterCrop
    \/ Normalize
    \/ ProcessBlock
    \/ EndScale
    \/ Downsample
    \/ ConcatenateFail
    \/ Concatenate
    \/ Aggregate
    \/ QualityScore
    \/ QualityLinAlgError
    \/ QualityNaNScore

SpecNiqe == InitNiqe /\ [][NextNiqe]_vars

Count(seq, x) == Cardinality({i \in 1..Len(seq) : seq[i] = x})
NumBlocks == num_block_h * num_block_w
\* the call got as far as the aggregation of lines 117-120
ReachedAggregation == pc \in {"aggregate", "quality", "done"} /\ Count(log, "concatenate") = 1
                      /\ outcome # "AxisError"
Aggregated == ReachedAggregation /\ pc # "aggregate"
EveryRowHasNaN(M) == \A i \in 1..Len(M) : \E j \in 1..Len(M[i]) : IsNaN(M[i][j])

\* C1: a call whose image is not 2-dimensional or is smaller than one block
\* ends in the shape failure (the assertion of line 86 is the only shape
\* failure niqe has), raised before any convolution, slicing or feature call.
C1_InvalidShapeBeforeAnyWork ==
    (pc # "entry" /\ (ndim # 2 \/ num_block_h = 0 \/ num_block_w = 0)) =>
        /\ pc = "done"
        /\ outcome = "AssertionError"
        /\ log = <<>>
        /\ slices = <<>>

\* C2: when every row of the distortion matrix holds a NaN, the call ends in
\* an EmptySampleCovariance failure; the pseudo-inverse is never taken and no
\* score is returned.
C2_EmptySampleCovarianceReported ==
    (Aggregated /\ EveryRowHasNaN(distparam)) =>
        /\ Count(log, "pinv") = 0
        /\ pc = "done" => outcome = "EmptySampleCovariance"

\* C3: with at least one block in each direction, the feature matrix of each
\* scale has num_block_h * num_block_w rows of 18 values, and the concatenated
\* distortion matrix has as many rows, of 36 values.
C3_MatrixShapes ==
    (ndim = 2 /\ num_block_h >= 1 /\ num_block_w >= 1) =>
        /\ pc \in {"convolve", "blocks", "resample", "concat"} =>
              \A k \in 1..Len(distparam) :
                  /\ Len(distparam[k]) = NumBlocks
                  /\ \A i \in 1..Len(distparam[k]) : Len(distparam[k][i]) = 18
        /\ pc = "concat" => Len(distparam) = 2
        /\ ReachedAggregation =>
              /\ Len(distparam) = NumBlocks
              /\ \A i \in 1..Len(distparam) : Len(distparam[i]) = 36

\* two blocks by two blocks: a 4 x 36 distortion matrix
C3_Witness ==
    /\ ReachedAggregation
    /\ num_block_h = 2 /\ num_block_w = 2
    /\ Len(distparam) = 4
    /\ \A i \in 1..4 : Len(distparam[i]) = 36

\* C7 as stated: every block of scale s is sliced at the multiples of
\* floor(block_size / s): rows [idx_h * floor(block_size_h / s),
\* (idx_h + 1) * floor(block_size_h / s)), columns likewise.
C7_BoundsAreMultiplesOfScaledSize ==
    \A i \in 1..Len(slices) :
        LET s == slices[i]
        IN  /\ s.rows = <<s.idx_h * (block_size_h \div s.scale),
                          (s.idx_h + 1) * (block_size_h \div s.scale)>>
            /\ s.cols = <<s.idx_w * (block_size_w \div s.scale),
                          (s.idx_w + 1) * (block_size_w \div s.scale)>>

\* C7 amended: the slice bounds of block (idx_h, idx_w) at scale s are rows
\* [floor(idx_h * block_size_h / s), floor((idx_h + 1) * block_size_h / s)) and
\* columns [floor(idx_w * block_size_w / s), floor((idx_w + 1) * block_size_w / s));
\* they are the multiples of block_size / s when s divides the block size (so
\* always at scale 1), and with an odd block size at scale 2 the extents of
\* consecutive blocks alternate between floor and ceiling of block_size / 2.
C7_BoundsAreScaledProducts ==
    \A i \in 1..Len(slices) :
        LET s  == slices[i]
            eh == s.rows[2] - s.rows[1]
            ew == s.cols[2] - s.cols[1]
        IN  /\ s.scale \in {1, 2}
            /\ s.idx_h \in 0..(num_block_h - 1) /\ s.idx_w \in 0..(num_block_w - 1)
            /\ s.rows[1] = (s.idx_h * block_size_h) \div s.scale
            /\ s.rows[2] = ((s.idx_h + 1) * block_size_h) \div s.scale
            /\ s.cols[1] = (s.idx_w * block_size_w) \div s.scale
            /\ s.cols[2] = ((s.idx_w + 1) * block_size_w) \div s.scale
            /\ block_size_h % s.scale = 0 =>
                  s.rows = <<s.idx_h * (block_size_h \div s.scale),
                            (s.idx_h + 1) * (block_size_h \div s.scale)>>
            /\ block_size_w % s.scale = 0 =>
                  s.cols = <<s.idx_w * (block_size_w \div s.scale),
                            (s.idx_w + 1) * (block_size_w \div s.scale)>>
            /\ block_size_h % s.scale # 0 =>
                  eh = (block_size_h \div 2) + (s.idx_h % 2)
            /\ block_size_w % s.scale # 0 =>
                  ew = (block_size_w \div 2) + (s.idx_w % 2)

\* at scale 2 with block_size_w = 3 the second block column was sliced at
\* columns [1, 3)
C7_Witness ==
    \E i \in 1..Len(slices) :
        /\ slices[i].scale = 2
        /\ block_size_w = 3
        /\ slices[i].idx_w = 1
        /\ slices[i].cols = <<1, 3>>

\* C8: in a run that reaches the aggregation, the resampling happened exactly
\* once, after the last feature call of scale 1 and before the convolutions of
\* scale 2; it was applied to the cropped image, and scale 2 normalised the
\* resampled image. Before that, it never happened more than once.
C8_DownsampleOnceBetweenScales ==
    /\ Count(log, "imresize") <= 1
    /\ ReachedAggregation =>
          /\ Count(log, "imresize") = 1
          /\ Len(log) >= 2 * NumBlocks + 6
          /\ \A i \in 1..(2 * NumBlocks + 6) :
                log[i] = IF i \in {1, 2, NumBlocks + 4, NumBlocks + 5} THEN "convolve"
                         ELSE IF i = NumBlocks + 3 THEN "imresize"
                         ELSE IF i = 2 * NumBlocks + 6 THEN "concatenate"
                         ELSE "compute_feature"
          /\ img = imresize(img_cropped)
          /\ img_nomalized = normalize(imresize(img_cropped))

\* a run over a non-empty image that returned a score
C8_Witness ==
    /\ pc = "done"
    /\ outcome = "score"
    /\ NumBlocks >= 2
    /\ Count(log, "imresize") = 1

----------------------------------------------------------------------------
(* The aggregation of lines 117-129 on distortion matrices with NaN entries *)

MaxRows == 3

\* matrix entries: NaN, 1.0 and 3.0
AggVals == {NaN, Fin(Q), Fin(3 * Q)}

\* matrices of two columns
AggMatrices == UNION { [1..n -> [1..2 -> AggVals]] : n \in 1..MaxRows }

InitAgg ==
    /\ pc = "aggregate"
    /\ distparam \in AggMatrices
    /\ ndim = 2
    /\ img = <<>>
    /\ img_cropped = <<>>
    /\ block_size_h = 1
    /\ block_size_w = 1
    /\ num_block_h = 0
    /\ num_block_w = 0
    /\ scale = 2
    /\ img_nomalized = <<>>
    /\ idx_w = 0
    /\ idx_h = 0
    /\ slices = <<>>
    /\ mu_distparam = <<>>
    /\ distparam_no_nan = <<>>
    /\ cov_distparam = <<>>
    /\ outcome = "none"
    /\ log = <<>>
    /\ feat = <<>>
    /\ gam_builds = 0
    /\ AggdIdle
    /\ DriverIdle

NextAgg == Aggregate \/ QualityScore \/ QualityLinAlgError \/ QualityNaNScore

SpecAgg == InitAgg /\ [][NextAgg]_vars

NonNaNIn(M, j) == {i \in 1..Len(M) : ~IsNaN(M[i][j])}
FullRowIndices(M) == {i \in 1..Len(M) : \A j \in 1..Len(M[i]) : ~IsNaN(M[i][j])}

RECURSIVE SumColumnOver(_, _, _)
SumColumnOver(M, j, S) ==
    IF S = {} THEN 0
    ELSE LET i == CHOOSE x \in S : TRUE
         IN  M[i][j].v + SumColumnOver(M, j, S \ {i})

\* the k-th smallest member of a set of numbers
Kth(S, k) == CHOOSE i \in S : Cardinality({x \in S : x < i}) = k - 1
FullRows(M) == [k \in 1..Cardinality(FullRowIndices(M)) |-> M[Kth(FullRowIndices(M), k)]]

AggregationDone == pc \in {"quality", "done"} /\ mu_distparam # <<>>

\* C4: the mean of a column is taken over every entry of the column that is
\* not NaN, whatever the rest of its row holds, while the covariance is taken
\* over the rows without any NaN only.
C4_MeanPerColumnCovPerRow ==
    AggregationDone =>
        /\ Len(mu_distparam) = NumCols(distparam)
        /\ \A j \in 1..NumCols(distparam) :
              LET S == NonNaNIn(distparam, j)
              IN  mu_distparam[j] =
                    IF S = {} THEN NaN
                    ELSE Fin(SumColumnOver(distparam, j, S) \div Cardinality(S))
        /\ distparam_no_nan = FullRows(distparam)
        /\ cov_distparam = cov(FullRows(distparam), NumCols(distparam))

\* a row with a NaN in one column and a number in the other, next to two
\* full rows: the row moves the mean of the other column away from the mean of
\* the full rows, and the covariance is the one of the two full rows
C4_Witness ==
    /\ AggregationDone
    /\ Cardinality(FullRowIndices(distparam)) = 2
    /\ ~IsNaNMatrix(cov_distparam)
    /\ \E i \in 1..Len(distparam) : \E j \in 1..2 : \E k \in 1..2 :
          /\ IsNaN(distparam[i][j])
          /\ ~IsNaN(distparam[i][k])
          /\ mu_distparam[k] # nanmean_full_rows(distparam)[k]

----------------------------------------------------------------------------
(* img_scissors and the driver NIQE *)

MaxFrames == 3

\* NIQE calls img_scissors(frame_origin, 720, 512)
OriginSize == 720
DestSize == 512

\* (height, width) of the frames of the source video
FrameShapes == {<<480, 640>>, <<720, 1280>>, <<1080, 1920>>}

None == 0

\* lines 187-198: the centred crop box, then the resize to dest_size
img_scissors(frame, shape, origin_size, dest_size) ==
    LET height    == shape[1]
        width     == shape[2]
        center_y  == height \div 2
        center_x  == width \div 2
        half_crop == origin_size \div 2
        start_x   == Max(center_x - half_crop, 0)
        start_y   == Max(center_y - half_crop, 0)
        end_x     == Min(center_x + half_crop, width)
        end_y     == Min(center_y + half_crop, height)
    IN  [frame |-> frame, crop |-> <<start_y, end_y, start_x, end_x>>,
         shape |-> <<dest_size, dest_size>>]

\* video.read(): the next frame, or (False, None) past the last one
ReadOk(pos, n) == pos < n
ReadFrame(pos, n) == IF pos < n THEN pos + 1 ELSE None

\* calculate_niqe of a frame: a score of its own for every frame
calculate_niqe(frame) == frame * Q

InitDriver ==
    /\ dpc = "start"
    /\ opened \in BOOLEAN \X BOOLEAN
    /\ n_origin \in 0..MaxFrames
    /\ n_result \in 0..MaxFrames
    /\ pos_origin = 0
    /\ pos_result = 0
    /\ rval_origin = FALSE
    /\ rval_result = FALSE
    /\ frame_origin = None
    /\ frame_result = None
    /\ index = 0
    /\ niqe_origin = 0
    /\ niqe_result = 0
    /\ scored = <<>>
    /\ douts = "none"
    /\ \E sh \in FrameShapes : img = sh
    /\ pc = "idle"
    /\ ndim = 2
    /\ img_cropped = <<>>
    /\ block_size_h = 1
    /\ block_size_w = 1
    /\ num_block_h = 0
    /\ num_block_w = 0
    /\ scale = 1
    /\ img_nomalized = <<>>
    /\ idx_w = 0
    /\ idx_h = 0
    /\ slices = <<>>
    /\ distparam = <<>>
    /\ mu_distparam = <<>>
    /\ distparam_no_nan = <<>>
    /\ cov_distparam = <<>>
    /\ outcome = "none"
    /\ log = <<>>
    /\ feat = <<>>
    /\ gam_builds = 0
    /\ AggdIdle

\* lines 207-209: both videos are open, the first frame of each is read
OpenRead ==
    /\ dpc = "start"
    /\ opened[1] /\ opened[2]
    /\ rval_origin' = ReadOk(pos_origin, n_origin)
    /\ frame_origin' = ReadFrame(pos_origin, n_origin)
    /\ pos_origin' = IF ReadOk(pos_origin, n_origin) THEN pos_origin + 1 ELSE pos_origin
    /\ rval_result' = ReadOk(pos_result, n_result)
    /\ frame_result' = ReadFrame(pos_result, n_result)
    /\ pos_result' = IF ReadOk(pos_result, n_result) THEN pos_result + 1 ELSE pos_result
    /\ dpc' = "loop"
    /\ UNCHANGED <<aggdVars, feat, niqeVars, opened, n_origin, n_result, index,
                   niqe_origin, niqe_result, scored, douts>>

\* lines 210-212: a video is not open
NotOpened ==
    /\ dpc = "start"
    /\ ~(opened[1] /\ opened[2])
    /\ rval_origin' = FALSE
    /\ rval_result' = FALSE
    /\ dpc' = "loop"
    /\ UNCHANGED <<aggdVars, feat, niqeVars, opened, n_origin, n_result,
                   pos_origin, pos_result, frame_origin, frame_result, index,
                   niqe_origin, niqe_result, scored, douts>>

\* lines 216-217 past the last frame of the source video: read() gives None
\* and img_scissors fails on None.shape
ScissorsOnNone ==
    /\ dpc = "loop"
    /\ rval_origin /\ rval_result
    /\ ~ReadOk(pos_origin, n_origin)
    /\ rval_origin' = FALSE
    /\ frame_origin' = None
    /\ douts' = "AttributeError"
    /\ dpc' = "done"
    /\ UNCHANGED <<aggdVars, feat, niqeVars, opened, n_origin, n_result,
                   pos_origin, pos_result, rval_result, frame_result, index,
                   niqe_origin, niqe_result, scored>>

\* lines 216-221 past the last frame of the generated video: break
LoopBreak ==
    /\ dpc = "loop"
    /\ rval_origin /\ rval_result
    /\ ReadOk(pos_origin, n_origin)
    /\ ~ReadOk(pos_result, n_result)
    /\ rval_origin' = TRUE
    /\ frame_origin' = ReadFrame(pos_origin, n_origin)
    /\ pos_origin' = pos_origin + 1
    /\ rval_result' = FALSE
    /\ frame_result' = None
    /\ dpc' = "divide"
    /\ UNCHANGED <<aggdVars, feat, niqeVars, opened, n_origin, n_result,
                   pos_result, index, niqe_origin, niqe_result, scored, douts>>

\* lines 216-225 with a frame from each video: both are scored
LoopScore ==
    /\ dpc = "loop"
    /\ rval_origin /\ rval_result
    /\ ReadOk(pos_origin, n_origin)
    /\ ReadOk(pos_result, n_result)
    /\ rval_origin' = TRUE
    /\ frame_origin' = ReadFrame(pos_origin, n_origin)
    /\ pos_origin' = pos_origin + 1
    /\ rval_result' = TRUE
    /\ frame_result' = ReadFrame(pos_result, n_result)
    /\ pos_result' = pos_result + 1
    /\ LET img_origin == img_scissors(frame_origin', img, OriginSize, DestSize)
           img_result == frame_result'
       IN  /\ niqe_origin' = niqe_origin + calculate_niqe(img_origin.frame)
           /\ niqe_result' = niqe_result + calculate_niqe(img_result)
           /\ scored' = Append(scored, <<img_origin, img_result>>)
    /\ index' = index + 1
    /\ UNCHANGED <<aggdVars, feat, niqeVars, opened, n_origin, n_result, dpc, douts>>

\* line 214: the loop condition is false
LoopExit ==
    /\ dpc = "loop"
    /\ ~(rval_origin /\ rval_result)
    /\ dpc' = "divide"
    /\ UNCHANGED <<aggdVars, feat, niqeVars, opened, n_origin, n_result,
                   pos_origin, pos_result, rval_origin, rval_result,
                   frame_origin, frame_result, index, niqe_origin, niqe_result,
                   scored, douts>>

\* line 226 with index = 0
DivideByZero ==
    /\ dpc = "divide"
    /\ index = 0
    /\ douts' = "ZeroDivisionError"
    /\ dpc' = "done"
    /\ UNCHANGED <<aggdVars, feat, niqeVars, opened, n_origin, n_result,
                   pos_origin, pos_result, rval_origin, rval_result,
                   frame_origin, frame_result, index, niqe_origin, niqe_result,
                   scored>>

\* lines 226-228: the two averages are returned
ReturnAverages ==
    /\ dpc = "divide"
    /\ index # 0
    /\ niqe_origin' = niqe_origin \div index
    /\ niqe_result' = niqe_result \div index
    /\ douts' = "returned"
    /\ dpc' = "done"
    /\ UNCHANGED <<aggdVars, feat, niqeVars, opened, n_origin, n_result,
                   pos_origin, pos_result, rval_origin, rval_result,
                   frame_origin, frame_result, index, scored>>

NextDriver ==
    \/ OpenRead
    \/ NotOpened
    \/ ScissorsOnNone
    \/ LoopBreak
    \/ LoopScore
    \/ LoopExit
    \/ DivideByZero
    \/ ReturnAverages

SpecDriver == InitDriver /\ [][NextDriver]_vars

\* C10: with two opened videos the driver ends by returning the averages: it
\* never hands None to img_scissors, index is the number of frame pairs
\* scored, and index is at least 1 when the sums are divided by it.
C10_DriverReturnsAverages ==
    (opened[1] /\ opened[2]) =>
        /\ index = Len(scored)
        /\ douts # "AttributeError"
        /\ dpc = "divide" => index >= 1
        /\ dpc = "done" => douts = "returned"

====
